---- MODULE Spec2Model ----
(***************************************************************************)
(* Model of the fnordmetric query plan builder (QueryPlan, the unnamed     *)
(* source part_000) and of the metric HTTP API (metricdb/httpapi.cc).      *)
(*                                                                         *)
(* Syntax trees are values: a node is a record [type, token, id,           *)
(* children].  The code works on pointers; wherever it keeps a pointer     *)
(* into a tree and writes through it, the model writes the new value back  *)
(* into the tree that owns the node, and wherever it calls deepCopy() the  *)
(* model continues with a value that is no longer written back.            *)
(* The model is of the build with assertions enabled: a failed assert()    *)
(* ends the process, which is the result kind "Abort".                     *)
(***************************************************************************)
EXTENDS Integers, Sequences, FiniteSets, TLC

VARIABLES
  pc,          \* planner: "start" before buildQueryPlan is called, "done" after
  ast_in,      \* planner: the statement tree as the caller handed it in
  ast,         \* planner: the caller's statement tree (as the call left it)
  exec,        \* planner: what buildQueryPlan returned
  pd_init,     \* push-down: the target select list before the first call
  pd_target,   \* push-down: the target select list
  pd_before,   \* push-down: the target select list before the last call
  pd_orig,     \* push-down: the expression handed to the last call
  pd_node,     \* push-down: that expression as the last call left it
  metrics,     \* http: the metric repository, key -> number of samples
  metrics_before, \* http: the metric repository before the last request
  posted,      \* http: the keys some POST answered 201 for
  response     \* http: the last request and its response

vars == <<pc, ast_in, ast, exec, pd_init, pd_target, pd_before, pd_orig,
          pd_node, metrics, metrics_before, posted, response>>

-----------------------------------------------------------------------------
(* Bounds of the model *)

MaxSelectEntries == 2   \* entries of an input select list
MaxGroupClauses == 2    \* GROUP BY clauses of an input SELECT
MaxDepth == 6           \* nested buildQueryPlan calls the model follows
MaxTarget == 4          \* entries of a push-down target select list
MaxValLen == 2          \* characters of a ?value= parameter
MaxMetrics == 2         \* metrics the repository holds
MaxSamples == 2         \* samples one metric holds

-----------------------------------------------------------------------------
(* ASTNode *)

Node(type, token, children) ==
  [type |-> type, token |-> token, id |-> -1, children |-> children]

NoToken == ""

appendChild(node, child) ==
  [node EXCEPT !.children = Append(@, child)]

\* appendChild(node, index): insert before position index (0-based)
appendChildAt(node, child, index) ==
  [node EXCEPT !.children =
     SubSeq(@, 1, index) \o <<child>> \o SubSeq(@, index + 1, Len(@))]

\* removeChild(index), index 0-based
removeChild(node, index) ==
  [node EXCEPT !.children =
     SubSeq(@, 1, index) \o SubSeq(@, index + 2, Len(@))]

RECURSIVE deepCopy(_)
deepCopy(node) ==
  [type |-> node.type, token |-> node.token, id |-> -1,
   children |-> [i \in 1..Len(node.children) |-> deepCopy(node.children[i])]]

RECURSIVE HasTag(_, _)
\* some node of the tree has the tag
HasTag(node, tag) ==
  \/ node.type = tag
  \/ \E i \in 1..Len(node.children) : HasTag(node.children[i], tag)

-----------------------------------------------------------------------------
(* Symbol table *)

NoSymbol == [found |-> FALSE, aggregate |-> FALSE]

lookupSymbol(name) ==
  CASE name = "sum" -> [found |-> TRUE, aggregate |-> TRUE]
    [] name = "neg" -> [found |-> TRUE, aggregate |-> FALSE]
    [] OTHER -> NoSymbol

-----------------------------------------------------------------------------
(* Aggregate detection *)

RECURSIVE hasAggregationExpression(_)
RECURSIVE hasAggregationInChildren(_, _)

\* variant: every METHOD_CALL counts, isAggregate() is not asked
hasAggregationExpression_anyCall(node) ==
  IF HasTag(node, "T_METHOD_CALL") THEN "true" ELSE "false"

\* "true", "false", or "abort" when assert(symbol != nullptr) fails
hasAggregationExpression(node) ==
  LET symbol == lookupSymbol(node.token)
      own == IF node.type = "T_METHOD_CALL"
               THEN IF node.token = NoToken \/ ~symbol.found THEN "abort"
                    ELSE IF symbol.aggregate THEN "true" ELSE "false"
               ELSE "false"
  IN IF own # "false" THEN own
     ELSE hasAggregationInChildren(node.children, 1)

\* the loop over the children, which ends at the first child that answers
hasAggregationInChildren(children, i) ==
  IF i > Len(children) THEN "false"
  ELSE LET r == hasAggregationExpression(children[i])
       IN IF r # "false" THEN r
          ELSE hasAggregationInChildren(children, i + 1)

hasGroupByClause(node) ==
  /\ node.type = "T_SELECT"
  /\ Len(node.children) >= 2
  /\ \E i \in 1..Len(node.children) : node.children[i].type = "T_GROUP_BY"

\* variant: the select list is never searched
hasAggregationInSelectList_never(node) == "false"

hasAggregationInSelectList(node) ==
  IF node.type # "T_SELECT" \/ Len(node.children) < 2 THEN "false"
  ELSE IF node.children[1].type # "T_SELECT_LIST" THEN "abort"
  ELSE hasAggregationExpression(node.children[1])

-----------------------------------------------------------------------------
(* Select-list push-down: buildInternalSelectList *)

\* variant: size() instead of size() - 1
newColIndex_offByOne(target) == Len(target.children)

\* col_index = target_select_list->getChildren().size() - 1
newColIndex(target) == Len(target.children) - 1

RECURSIVE buildInternalSelectList(_, _)
RECURSIVE buildInternalSelectListChildren(_, _, _)

\* returns the node and the target select list as the call leaves them
buildInternalSelectList(node, target) ==
  IF node.type = "T_COLUMN_NAME"
    THEN LET derived == Node("T_DERIVED_COLUMN", NoToken, <<deepCopy(node)>>)
             target2 == appendChild(target, derived)
         IN [ok |-> TRUE,
             node |-> [node EXCEPT !.type = "T_RESOLVED_COLUMN",
                                   !.id = newColIndex(target2)],
             target |-> target2]
    ELSE LET r == buildInternalSelectListChildren(node.children, 1, target)
         IN [ok |-> r.ok,
             node |-> [node EXCEPT !.children = r.children],
             target |-> r.target]

\* the loop over the children from child i on
buildInternalSelectListChildren(children, i, target) ==
  IF i > Len(children)
    THEN [ok |-> TRUE, children |-> children, target |-> target]
    ELSE LET r == buildInternalSelectList(children[i], target)
             done == [children EXCEPT ![i] = r.node]
         IN IF ~r.ok
              THEN [ok |-> FALSE, children |-> done, target |-> r.target]
              ELSE buildInternalSelectListChildren(done, i + 1, r.target)

-----------------------------------------------------------------------------
(* Collaborators of the plan builder: expression compiler, table           *)
(* repository, leaf builders, LIMIT builder                                *)

RECURSIVE CountAggregates(_)
RECURSIVE SumAggregates(_, _)
CountAggregates(node) ==
  (IF node.type = "T_METHOD_CALL" /\ lookupSymbol(node.token).aggregate
     THEN 1 ELSE 0) + SumAggregates(node.children, 1)
SumAggregates(children, i) ==
  IF i > Len(children) THEN 0
  ELSE CountAggregates(children[i]) + SumAggregates(children, i + 1)

RECURSIVE HasUnknownCall(_)
HasUnknownCall(node) ==
  \/ node.type = "T_METHOD_CALL" /\ ~lookupSymbol(node.token).found
  \/ \E i \in 1..Len(node.children) : HasUnknownCall(node.children[i])

\* compile(expr) -> (compiled expression, scratch slots): an expression needs
\* scratch slots exactly when it contains an aggregate call; a call of a
\* function without a symbol does not compile
compileAST(expr) ==
  [ok |-> ~HasUnknownCall(expr),
   expr |-> expr,
   scratchpad_len |-> CountAggregates(expr)]

Tables == {"t"}

Null == [kind |-> "nullptr"]

Abort(where) == [kind |-> "Abort", at |-> where, via |-> <<>>]

DepthExceeded == [kind |-> "DepthExceeded", at |-> "recursion", via |-> <<>>]

IsFail(e) == e.kind \in {"Abort", "DepthExceeded"}

\* a failure inside a builder, seen from the call that entered the builder
Via(builder, e) == [e EXCEPT !.via = <<builder>> \o @]

\* the name of the output column of a select list entry
ColumnName(entry) ==
  IF Len(entry.children) = 1 /\ entry.children[1].type = "T_COLUMN_NAME"
    THEN entry.children[1].token
    ELSE "unnamed"

SelectListColumns(select_list) ==
  [i \in 1..Len(select_list.children) |-> ColumnName(select_list.children[i])]

\* table scan: a SELECT whose second child is a FROM clause naming a table
\* the repository resolves
TableScanBuild(node) ==
  IF /\ node.type = "T_SELECT"
     /\ Len(node.children) >= 2
     /\ node.children[1].type = "T_SELECT_LIST"
     /\ node.children[2].type = "T_FROM"
     /\ node.children[2].token \in Tables
    THEN [kind |-> "TableScan",
          table |-> node.children[2].token,
          columns |-> SelectListColumns(node.children[1])]
    ELSE Null

\* tableless select: a SELECT of nothing but a select list whose entries
\* are computable without a row source
TablelessSelectBuild(node) ==
  IF /\ node.type = "T_SELECT"
     /\ Len(node.children) = 1
     /\ node.children[1].type = "T_SELECT_LIST"
     /\ compileAST(node.children[1]).ok
     /\ compileAST(node.children[1]).scratchpad_len = 0
     /\ ~HasTag(node.children[1], "T_COLUMN_NAME")
    THEN [kind |-> "TablelessSelect",
          columns |-> SelectListColumns(node.children[1])]
    ELSE Null

FirstIndexOf(node, tag) ==
  CHOOSE i \in 1..Len(node.children) :
    /\ node.children[i].type = tag
    /\ \A j \in 1..(i - 1) : node.children[j].type # tag

HasChild(node, tag) ==
  \E i \in 1..Len(node.children) : node.children[i].type = tag

-----------------------------------------------------------------------------
(* The plan builder *)

RECURSIVE buildQueryPlan(_, _)
RECURSIVE buildSeriesStatement(_, _)
RECURSIVE buildGroupBy(_, _)
RECURSIVE LimitClauseBuild(_, _)
RECURSIVE groupExprLoop(_, _, _)
RECURSIVE groupClauseLoop(_, _, _)

\* a builder's result: the plan (or the failure) and the tree it was handed,
\* as the call left it
R(e, node) == [exec |-> e, ast |-> node]

buildDrawStatement(node) ==
  CASE node.token = "bar" -> [kind |-> "DrawStatement", type |-> "T_BAR_CHART",
                              columns |-> <<>>]
    [] node.token = "line" -> [kind |-> "DrawStatement", type |-> "T_LINE_CHART",
                               columns |-> <<>>]
    [] node.token = "area" -> [kind |-> "DrawStatement", type |-> "T_AREA_CHART",
                               columns |-> <<>>]
    [] OTHER -> Via("buildDrawStatement", Abort("assert(888 == 0)"))

\* LIMIT: the inner plan is built from a copy of the statement without its
\* limit clause
LimitClauseBuild(node, fuel) ==
  IF node.type = "T_SELECT" /\ HasChild(node, "T_LIMIT")
    THEN LET new_ast == removeChild(deepCopy(node), FirstIndexOf(node, "T_LIMIT") - 1)
             child == buildQueryPlan(new_ast, fuel - 1).exec
         IN IF IsFail(child) THEN Via("LimitClause::build", child)
            ELSE [kind |-> "LimitClause",
                  limit |-> node.children[FirstIndexOf(node, "T_LIMIT")].token,
                  columns |-> child.columns,
                  child |-> child]
    ELSE Null

\* variant: num_axes read after the name expression was pushed down
numAxes_afterPushDown(select_ast, pushed_sl) == Len(pushed_sl.children)

\* size_t num_axes = child_sl->getChildren().size(), read before the name
\* expression is pushed down into child_sl
numAxes(select_ast, pushed_sl) == Len(select_ast.children[1].children)

buildSeriesStatement(node, fuel) ==
  LET select_ast == node.children[2]
  IN
  IF Len(select_ast.children) = 0
    THEN R(Via("buildSeriesStatement", Abort("assert(size > 0)")), node)
  ELSE IF select_ast.children[1].type # "T_SELECT_LIST"
    THEN R(Via("buildSeriesStatement", Abort("assert(T_SELECT_LIST)")), node)
  ELSE
  LET child_sl == select_ast.children[1]
      name0 == node.children[1]
      literal == name0.type = "T_SERIES_NAME"
      pushed == buildInternalSelectList(deepCopy(name0), child_sl)
      name == IF literal THEN Node("T_LITERAL", name0.token, <<>>)
                         ELSE pushed.node
      \* child_sl points into the statement: the push-down appends to it
      node1 == IF literal THEN node
               ELSE [node EXCEPT !.children[2].children[1] = pushed.target]
      num_axes == numAxes(select_ast, node1.children[2].children[1])
      sub == buildQueryPlan(node1.children[2], fuel - 1)
      node2 == [node1 EXCEPT !.children[2] = sub.ast]
      select == sub.exec
      name_expr == compileAST(name)
      n == IF num_axes < Len(select.columns) THEN num_axes
           ELSE Len(select.columns)
  IN IF IsFail(select) THEN R(Via("buildSeriesStatement", select), node2)
     ELSE IF ~name_expr.ok
       THEN R(Via("buildSeriesStatement", Abort("compileAST")), node2)
     ELSE IF name_expr.scratchpad_len # 0
       THEN R(Via("buildSeriesStatement", Abort("assert(scratchpad_len == 0)")),
              node2)
     ELSE R([kind |-> "SeriesStatement",
             columns |-> <<"series">> \o SubSeq(select.columns, 1, n),
             name_expr |-> name_expr.expr,
             child |-> select], node2)

\* variant: the GROUP BY clause stays in the child statement
removeFirstGroupBy_keep(child_ast) == child_ast

\* the loop that removes the first GROUP BY clause of the child statement
removeFirstGroupBy(child_ast) ==
  IF HasChild(child_ast, "T_GROUP_BY")
    THEN removeChild(child_ast, FirstIndexOf(child_ast, "T_GROUP_BY") - 1)
    ELSE child_ast

\* for (group_expr : child->getChildren()), from expression j on;
\* st = [child_ast, group_exprs], child_sl being child 0 of child_ast
groupExprLoop(clause, j, st) ==
  IF j > Len(clause.children) THEN st
  ELSE LET r == buildInternalSelectList(deepCopy(clause.children[j]),
                                        st.child_ast.children[1])
       IN groupExprLoop(clause, j + 1,
            [child_ast |-> [st.child_ast EXCEPT !.children[1] = r.target],
             group_exprs |-> appendChild(st.group_exprs, r.node)])

\* for (child : ast->getChildren()), from child i on
groupClauseLoop(node, i, st) ==
  IF i > Len(node.children) THEN st
  ELSE IF node.children[i].type # "T_GROUP_BY"
    THEN groupClauseLoop(node, i + 1, st)
  ELSE LET st1 == groupExprLoop(node.children[i], 1, st)
       IN groupClauseLoop(node, i + 1,
            [st1 EXCEPT !.child_ast = removeFirstGroupBy(@)])

\* lines 165-204 of buildGroupBy: the rewritten own select list, the child
\* statement and the synthetic container of rewritten grouping expressions
groupByRewrite(node) ==
  LET pushed == buildInternalSelectList(deepCopy(node.children[1]),
                                        Node("T_SELECT_LIST", NoToken, <<>>))
      child_ast0 == appendChildAt(removeChild(deepCopy(node), 0),
                                  pushed.target, 0)
      st == groupClauseLoop(node, 1,
              [child_ast |-> child_ast0,
               group_exprs |-> Node("T_GROUP_BY", NoToken, <<>>)])
  IN [select_list |-> pushed.node,
      child_ast |-> st.child_ast,
      group_exprs |-> st.group_exprs]

buildGroupBy(node, fuel) ==
  IF node.children[1].type # "T_SELECT_LIST"
    THEN Via("buildGroupBy", Abort("assert(T_SELECT_LIST)"))
  ELSE
  LET rw == groupByRewrite(node)
      select_expr == compileAST(rw.select_list)
      group_expr == compileAST(rw.group_exprs)
      child == buildQueryPlan(rw.child_ast, fuel - 1).exec
  IN IF ~select_expr.ok \/ ~group_expr.ok
       THEN Via("buildGroupBy", Abort("compileAST"))
     ELSE IF group_expr.scratchpad_len # 0
       THEN Via("buildGroupBy", Abort("assert(group_scratchpad_len == 0)"))
     ELSE IF IsFail(child) THEN Via("buildGroupBy", child)
     ELSE [kind |-> "GroupBy",
           columns |-> [i \in 1..Len(rw.select_list.children) |-> "unnamed"],
           select_expr |-> select_expr.expr,
           group_expr |-> group_expr.expr,
           select_scratchpad_len |-> select_expr.scratchpad_len,
           child_ast |-> rw.child_ast,
           child |-> child]

buildQueryPlan(node, fuel) ==
  IF fuel = 0 THEN R(DepthExceeded, node)
  ELSE IF node.type = "T_SERIES" THEN buildSeriesStatement(node, fuel)
  ELSE IF node.type = "T_DRAW" THEN R(buildDrawStatement(node), node)
  ELSE IF LimitClauseBuild(node, fuel) # Null
    THEN R(LimitClauseBuild(node, fuel), node)
  ELSE IF hasGroupByClause(node) THEN R(buildGroupBy(node, fuel), node)
  ELSE IF hasAggregationInSelectList(node) = "abort"
    THEN R(Abort("assert(symbol != nullptr)"), node)
  ELSE IF hasAggregationInSelectList(node) = "true"
    THEN R(buildGroupBy(node, fuel), node)
  ELSE IF TableScanBuild(node) # Null THEN R(TableScanBuild(node), node)
  ELSE IF TablelessSelectBuild(node) # Null
    THEN R(TablelessSelectBuild(node), node)
  ELSE R(Abort("assert(0)"), node)

-----------------------------------------------------------------------------
(* Statement trees the parser hands to the plan builder *)

Col(name) == Node("T_COLUMN_NAME", name, <<>>)
Lit(value) == Node("T_LITERAL", value, <<>>)
Call(name, arg) == Node("T_METHOD_CALL", name, <<arg>>)

SelExprs ==
  {Col("k"), Col("v"), Lit("1"), Call("sum", Col("v")), Call("neg", Col("v")),
   Call("neg", Call("sum", Col("v"))), Call("foo", Col("v"))}

SelectList(exprs) ==
  Node("T_SELECT_LIST", NoToken,
       [i \in 1..Len(exprs) |-> Node("T_DERIVED_COLUMN", NoToken, <<exprs[i]>>)])

SelectLists ==
  {SelectList(es) : es \in UNION {[1..n -> SelExprs] : n \in 1..MaxSelectEntries}}

GroupClauses ==
  {Node("T_GROUP_BY", NoToken, <<Col("k")>>),
   Node("T_GROUP_BY", NoToken, <<Call("sum", Col("k"))>>),
   Node("T_GROUP_BY", NoToken, <<Col("k"), Call("neg", Col("v"))>>)}

GroupClauseSeqs == UNION {[1..n -> GroupClauses] : n \in 0..MaxGroupClauses}

FromClauses == {<<>>, <<Node("T_FROM", "t", <<>>)>>}

LimitClauses == {<<>>, <<Node("T_LIMIT", "10", <<>>)>>}

Selects ==
  {Node("T_SELECT", NoToken, <<sl>> \o f \o g \o l) :
     sl \in SelectLists, f \in FromClauses, g \in GroupClauseSeqs,
     l \in LimitClauses}

SeriesNames ==
  {Node("T_SERIES_NAME", "s", <<>>), Col("k"), Call("neg", Col("k")),
   Call("sum", Col("k"))}

\* the nested SELECT of a SERIES statement: at most one GROUP BY clause
SeriesSelects ==
  {s \in Selects :
     Cardinality({i \in 1..Len(s.children) : s.children[i].type = "T_GROUP_BY"}) <= 1}

SeriesStatements ==
  {Node("T_SERIES", NoToken, <<n, s>>) : n \in SeriesNames, s \in SeriesSelects}

DrawStatements == {Node("T_DRAW", t, <<>>) : t \in {"bar", "line", "area", "pie"}}

-----------------------------------------------------------------------------
(* The three state machines *)

NoExec == [kind |-> "none"]
NoNode == Node("none", NoToken, <<>>)
NoMetrics == [k \in {} |-> 0]
NoResponse ==
  [method |-> "none", url |-> <<>>, params |-> "none", handler |-> "none",
   key |-> <<>>, handled |-> FALSE, status |-> 0, samples |-> 0]

PlanIdle ==
  /\ pc = "idle" /\ ast_in = NoNode /\ ast = NoNode /\ exec = NoExec
PushDownIdle ==
  /\ pd_init = NoNode /\ pd_target = NoNode /\ pd_before = NoNode
  /\ pd_orig = NoNode /\ pd_node = NoNode
HttpIdle ==
  /\ metrics = NoMetrics /\ metrics_before = NoMetrics
  /\ posted = {} /\ response = NoResponse

planVars == <<pc, ast_in, ast, exec>>
pushDownVars == <<pd_init, pd_target, pd_before, pd_orig, pd_node>>
httpVars == <<metrics, metrics_before, posted, response>>

(* planner: the caller parses a statement and calls buildQueryPlan once *)
InitPlan ==
  /\ pc = "start"
  /\ \/ ast_in \in DrawStatements
     \/ ast_in \in Selects
     \/ ast_in \in SeriesStatements
  /\ ast = ast_in
  /\ exec = NoExec
  /\ PushDownIdle /\ HttpIdle

Build ==
  /\ pc = "start"
  /\ LET r == buildQueryPlan(ast, MaxDepth)
     IN /\ exec' = r.exec
        /\ ast' = r.ast
  /\ pc' = "done"
  /\ UNCHANGED <<ast_in, pushDownVars, httpVars>>

NextPlan == Build

SpecPlan == InitPlan /\ [][NextPlan]_vars

(* push-down: a builder pushes expressions down into one target select list *)
RECURSIVE CountTag(_, _)
RECURSIVE CountTagIn(_, _, _)
CountTag(node, tag) ==
  (IF node.type = tag THEN 1 ELSE 0) + CountTagIn(node.children, 1, tag)
CountTagIn(children, i, tag) ==
  IF i > Len(children) THEN 0
  ELSE CountTag(children[i], tag) + CountTagIn(children, i + 1, tag)

PushExprs ==
  SelExprs \cup
  {Node("T_ADD_EXPR", NoToken, <<Col("k"), Call("sum", Col("v"))>>),
   Node("T_ADD_EXPR", NoToken, <<Col("v"), Col("v")>>),
   SelectList(<<Call("neg", Col("k")), Col("v")>>)}

InitialTargets ==
  {Node("T_SELECT_LIST", NoToken, <<>>),
   SelectList(<<Col("k")>>),
   SelectList(<<Call("sum", Col("v")), Lit("1")>>)}

InitPushDown ==
  /\ pd_init \in InitialTargets
  /\ pd_target = pd_init
  /\ pd_before = pd_init
  /\ pd_orig = NoNode
  /\ pd_node = NoNode
  /\ PlanIdle /\ HttpIdle

PushDown(e) ==
  /\ Len(pd_target.children) + CountTag(e, "T_COLUMN_NAME") <= MaxTarget
  /\ LET r == buildInternalSelectList(e, pd_target)
     IN /\ pd_node' = r.node
        /\ pd_target' = r.target
  /\ pd_orig' = e
  /\ pd_before' = pd_target
  /\ UNCHANGED <<pd_init, planVars, httpVars>>

NextPushDown == \E e \in PushExprs : PushDown(e)

SpecPushDown == InitPushDown /\ [][NextPushDown]_vars

-----------------------------------------------------------------------------
(* Vocabulary of the claims about the plan builder *)

PlanKinds ==
  {"TableScan", "TablelessSelect", "GroupBy", "LimitClause", "SeriesStatement",
   "DrawStatement"}

CompileErrorKinds ==
  {"InternalError", "UnknownFunction", "UnsupportedChartType",
   "MalformedStatement", "RewriteFailure"}

Done == pc = "done"

\* the select list of a statement holds an aggregate call, at any depth
AggregateInSelectList(node) ==
  /\ node.type = "T_SELECT"
  /\ CountAggregates(node.children[1]) > 0

RECURSIVE CallsInPreorder(_)
RECURSIVE CallsInPreorderOf(_, _)
\* the names of the METHOD_CALL nodes of a tree, in depth-first order
CallsInPreorder(node) ==
  (IF node.type = "T_METHOD_CALL" THEN <<node.token>> ELSE <<>>)
    \o CallsInPreorderOf(node.children, 1)
CallsInPreorderOf(children, i) ==
  IF i > Len(children) THEN <<>>
  ELSE CallsInPreorder(children[i]) \o CallsInPreorderOf(children, i + 1)

\* a depth-first scan meets an aggregate call before any call without a symbol
AggregateReached(node) ==
  LET calls == CallsInPreorder(node)
  IN \E i \in 1..Len(calls) :
       /\ lookupSymbol(calls[i]).aggregate
       /\ \A j \in 1..(i - 1) : lookupSymbol(calls[j]).found

\* a depth-first scan meets a call without a symbol before any aggregate call
UnknownReached(node) ==
  LET calls == CallsInPreorder(node)
  IN \E i \in 1..Len(calls) :
       /\ ~lookupSymbol(calls[i]).found
       /\ \A j \in 1..(i - 1) : ~lookupSymbol(calls[j]).aggregate

\* the call entered the GROUP BY builder for the statement itself
DispatchedToGroupBy(e) ==
  \/ e.kind = "GroupBy"
  \/ IsFail(e) /\ e.via # <<>> /\ Head(e.via) = "buildGroupBy"

PlainSelect(node) ==
  /\ node.type = "T_SELECT"
  /\ ~HasChild(node, "T_LIMIT")

Min(a, b) == IF a < b THEN a ELSE b

-----------------------------------------------------------------------------
(* C1 *)

\* C1: build_plan returns a plan or a typed, recoverable CompileError and
\* never ends the process: InternalError when no dispatch case accepts the
\* statement, UnknownFunction for a call without a symbol, and
\* UnsupportedChartType for a DRAW token outside {bar, line, area}.
C1_PlanOrTypedError ==
  Done =>
    /\ exec.kind \in PlanKinds \cup CompileErrorKinds
    /\ (ast_in.type = "T_DRAW" /\ ast_in.token \notin {"bar", "line", "area"}
          => exec.kind = "UnsupportedChartType")
    /\ (PlainSelect(ast_in) /\ Len(ast_in.children) >= 2
          /\ ~HasChild(ast_in, "T_GROUP_BY")
          /\ UnknownReached(ast_in.children[1])
          => exec.kind = "UnknownFunction")
    /\ (PlainSelect(ast_in)
          /\ ~HasChild(ast_in, "T_GROUP_BY") /\ ~AggregateInSelectList(ast_in)
          /\ ~HasUnknownCall(ast_in)
          /\ TableScanBuild(ast_in) = Null /\ TablelessSelectBuild(ast_in) = Null
          => exec.kind = "InternalError")

-----------------------------------------------------------------------------
(* C2 *)

\* C2: for a statement with no GROUP BY clause among its children and no
\* aggregate call anywhere in its select list, the root of the plan that
\* build_plan returns is never a GroupBy node.
C2_NoGroupByWithoutGrouping ==
  Done /\ ~HasChild(ast_in, "T_GROUP_BY") /\ ~AggregateInSelectList(ast_in)
    => exec.kind # "GroupBy"

\* a SELECT ... FROM with a non-aggregate call in its select list was planned
\* as a table scan
C2_Witness ==
  /\ Done
  /\ PlainSelect(ast_in)
  /\ ~HasChild(ast_in, "T_GROUP_BY") /\ ~AggregateInSelectList(ast_in)
  /\ HasTag(ast_in.children[1], "T_METHOD_CALL")
  /\ exec.kind = "TableScan"

-----------------------------------------------------------------------------
(* C3 *)

\* C3 (as claimed): a SELECT that is no SERIES/DRAW statement and has no LIMIT
\* clause is dispatched to the GROUP BY builder whenever it has a GROUP BY
\* clause or an aggregate call anywhere in its select list, for every number
\* of clauses, a SELECT of only a select list included.
C3_Original ==
  Done /\ PlainSelect(ast_in)
       /\ (HasChild(ast_in, "T_GROUP_BY") \/ AggregateInSelectList(ast_in))
    => DispatchedToGroupBy(exec)

\* C3 (amended): a SELECT without LIMIT that has at least two children is
\* dispatched to the GROUP BY builder whenever it has a GROUP BY clause or
\* the depth-first scan of its select list meets an aggregate call before
\* any call without a symbol, and the root of a plan it returns is then a
\* GroupBy node; a SELECT whose only child is its select list is never
\* dispatched to the GROUP BY builder.
C3_DispatchToGroupBy ==
  Done /\ PlainSelect(ast_in) =>
    /\ (Len(ast_in.children) >= 2
          /\ (HasChild(ast_in, "T_GROUP_BY") \/ AggregateReached(ast_in.children[1]))
          => /\ DispatchedToGroupBy(exec)
             /\ (~IsFail(exec) => exec.kind = "GroupBy"))
    /\ (Len(ast_in.children) < 2 => ~DispatchedToGroupBy(exec))

\* an aggregate below a non-aggregate call, without a GROUP BY clause, led to
\* a GroupBy node
C3_Witness ==
  /\ Done /\ PlainSelect(ast_in)
  /\ Len(ast_in.children) = 2
  /\ ~HasChild(ast_in, "T_GROUP_BY")
  /\ \E i \in 1..Len(ast_in.children[1].children) :
       ast_in.children[1].children[i].children[1] = Call("neg", Call("sum", Col("v")))
  /\ exec.kind = "GroupBy"

-----------------------------------------------------------------------------
(* C4 *)

\* select agg(v) from t group by k, v and k column names
ShapeAggGroupBy(node) ==
  /\ node.type = "T_SELECT"
  /\ Len(node.children) = 3
  /\ Len(node.children[1].children) = 1
  /\ LET e == node.children[1].children[1].children[1]
     IN /\ e.type = "T_METHOD_CALL"
        /\ lookupSymbol(e.token).aggregate
        /\ Len(e.children) = 1
        /\ e.children[1].type = "T_COLUMN_NAME"
  /\ node.children[2].type = "T_FROM"
  /\ node.children[3].type = "T_GROUP_BY"
  /\ Len(node.children[3].children) = 1
  /\ node.children[3].children[1].type = "T_COLUMN_NAME"

ShapeV(node) == node.children[1].children[1].children[1].children[1]
ShapeK(node) == node.children[3].children[1]

Derived(col) == Node("T_DERIVED_COLUMN", NoToken, <<col>>)

\* C4 (as claimed): for "select agg(v) from t group by k" the child select
\* list is [k, v], the rewritten grouping expression carries the child index
\* of k and the rewritten select expression the child index of v.
C4_Original ==
  Done /\ ShapeAggGroupBy(ast_in) =>
    /\ exec.kind = "GroupBy"
    /\ exec.child_ast.children[1].children
         = <<Derived(ShapeK(ast_in)), Derived(ShapeV(ast_in))>>
    /\ exec.group_expr.children[1].id = 0
    /\ exec.select_expr.children[1].children[1].children[1].id = 1

\* C4 (amended): for "select agg(v) from t group by k" the child select list
\* is [v, k]: the select list is pushed down first.  The rewritten select
\* expression carries index 0, the index of v, inside the aggregate call and
\* the rewritten grouping expression carries index 1, the index of k.
C4_ChildSelectListOrder ==
  Done /\ ShapeAggGroupBy(ast_in) =>
    /\ exec.kind = "GroupBy"
    /\ exec.child_ast.children[1].children
         = <<Derived(ShapeV(ast_in)), Derived(ShapeK(ast_in))>>
    /\ exec.select_expr.children[1].children[1].type = "T_METHOD_CALL"
    /\ exec.select_expr.children[1].children[1].children[1].type = "T_RESOLVED_COLUMN"
    /\ exec.select_expr.children[1].children[1].children[1].id = 0
    /\ exec.group_expr.children[1].type = "T_RESOLVED_COLUMN"
    /\ exec.group_expr.children[1].id = 1

C4_Witness ==
  /\ Done /\ ShapeAggGroupBy(ast_in)
  /\ exec.kind = "GroupBy"
  /\ exec.child.kind = "TableScan"
  /\ Len(exec.child.columns) = 2

-----------------------------------------------------------------------------
(* C6 *)

\* C6: the statement tree the caller hands in is equal in shape, tags and
\* tokens before and after the call, for every statement shape.
C6_CallerTreeUntouched ==
  Done /\ ~IsFail(exec) => ast = ast_in

-----------------------------------------------------------------------------
(* C7 *)

DeclaredAxisCount(node) == Len(node.children[2].children[1].children)

\* C7: the output columns of a SeriesStatement are "series" followed by the
\* first min(declared axis count, number of nested plan columns) columns of
\* the nested SELECT's plan, in order, the declared axis count being the
\* number of entries of the nested select list of the statement handed in;
\* for a literal series name and for a pushed-down name expression alike.
C7_SeriesColumns ==
  Done /\ ast_in.type = "T_SERIES" /\ exec.kind = "SeriesStatement" =>
    exec.columns
      = <<"series">> \o SubSeq(exec.child.columns, 1,
                               Min(DeclaredAxisCount(ast_in), Len(exec.child.columns)))

\* a name expression was pushed down: the nested plan has more columns than
\* the statement declared axes
C7_Witness ==
  /\ Done /\ ast_in.type = "T_SERIES" /\ exec.kind = "SeriesStatement"
  /\ ast_in.children[1].type # "T_SERIES_NAME"
  /\ Len(exec.child.columns) > DeclaredAxisCount(ast_in)
  /\ Len(exec.columns) = 1 + DeclaredAxisCount(ast_in)

-----------------------------------------------------------------------------
(* C8 *)

\* C8: for every statement with a GROUP BY clause, whatever its grouping
\* expressions are, the group expression the GROUP BY builder compiles from
\* the rewritten grouping expressions has scratch_slots = 0.
C8_GroupExprNoScratch ==
  Done /\ ast_in.type = "T_SELECT" /\ HasChild(ast_in, "T_GROUP_BY") =>
    /\ compileAST(groupByRewrite(ast_in).group_exprs).scratchpad_len = 0
    /\ ~(IsFail(exec) /\ exec.at = "assert(group_scratchpad_len == 0)")

-----------------------------------------------------------------------------
(* C10 *)

\* the entries of a select list are DERIVED_COLUMN wrappers of column names
OnlyDerivedColumns(select_list) ==
  \A i \in 1..Len(select_list.children) :
    /\ select_list.children[i].type = "T_DERIVED_COLUMN"
    /\ Len(select_list.children[i].children) = 1
    /\ select_list.children[i].children[1].type = "T_COLUMN_NAME"

ChildStatementPlain(child_ast) ==
  /\ ~HasChild(child_ast, "T_GROUP_BY")
  /\ child_ast.children[1].type = "T_SELECT_LIST"
  /\ OnlyDerivedColumns(child_ast.children[1])
  /\ CountAggregates(child_ast.children[1]) = 0

RECURSIVE GroupByNeverNested(_)
\* in a plan, the child of a GroupBy node is no GroupBy node and was built
\* from a statement without grouping
GroupByNeverNested(e) ==
  /\ e.kind = "GroupBy" =>
       /\ e.child.kind # "GroupBy"
       /\ ChildStatementPlain(e.child_ast)
  /\ e.kind \in {"GroupBy", "LimitClause", "SeriesStatement"} =>
       GroupByNeverNested(e.child)

\* C10: the child statement the GROUP BY builder hands to the recursive
\* build_plan call has no GROUP_BY clause (also when the statement has
\* several) and a select list of DERIVED_COLUMN wrappers of column
\* references without an aggregate call; the child plan of a GroupBy node
\* is never a GroupBy node, and build_plan returns within the depth the
\* statement allows.
C10_GroupingNotReapplied ==
  Done =>
    /\ exec.kind # "DepthExceeded"
    /\ GroupByNeverNested(exec)
    /\ (ast_in.type = "T_SELECT"
          /\ (HasChild(ast_in, "T_GROUP_BY") \/ AggregateInSelectList(ast_in))
          => ChildStatementPlain(groupByRewrite(ast_in).child_ast))

\* a statement with two GROUP BY clauses was planned as a GroupBy node over
\* a table scan
C10_Witness ==
  /\ Done /\ PlainSelect(ast_in)
  /\ Cardinality({i \in 1..Len(ast_in.children) :
                    ast_in.children[i].type = "T_GROUP_BY"}) >= 2
  /\ exec.kind = "GroupBy"
  /\ exec.child.kind = "TableScan"

-----------------------------------------------------------------------------
(* C5 *)

RECURSIVE Resolved(_, _, _)
\* new is orig with every column reference retagged to RESOLVED_COLUMN and
\* holding the index of a target entry that wraps a copy of the reference
Resolved(orig, new, target) ==
  IF orig.type = "T_COLUMN_NAME"
    THEN /\ new.type = "T_RESOLVED_COLUMN"
         /\ new.id >= 0 /\ new.id < Len(target.children)
         /\ target.children[new.id + 1].type = "T_DERIVED_COLUMN"
         /\ target.children[new.id + 1].children = <<orig>>
    ELSE /\ new.type = orig.type
         /\ new.token = orig.token
         /\ Len(new.children) = Len(orig.children)
         /\ \A i \in 1..Len(orig.children) :
              Resolved(orig.children[i], new.children[i], target)

IsPrefix(old, new) ==
  /\ Len(old) <= Len(new)
  /\ SubSeq(new, 1, Len(old)) = old

\* C5: after push_down(node, target) returns, after any sequence of calls
\* into the same target: no COLUMN_NAME node remains in the rewritten tree,
\* every node rewritten to RESOLVED_COLUMN holds an index i with
\* 0 <= i < length(target) and target[i] is a DERIVED_COLUMN whose single
\* child is a copy of the column reference the node was, and the entries
\* the target had before keep their positions and content.
C5_PushDownResolves ==
  pd_orig # NoNode =>
    /\ ~HasTag(pd_node, "T_COLUMN_NAME")
    /\ Resolved(pd_orig, pd_node, pd_target)
    /\ IsPrefix(pd_before.children, pd_target.children)
    /\ IsPrefix(pd_init.children, pd_target.children)
    /\ Len(pd_target.children)
         = Len(pd_before.children) + CountTag(pd_orig, "T_COLUMN_NAME")

\* an expression with two column references was pushed down into a target
\* that earlier calls had already appended to
C5_Witness ==
  /\ pd_orig # NoNode
  /\ CountTag(pd_orig, "T_COLUMN_NAME") = 2
  /\ Len(pd_init.children) >= 1
  /\ Len(pd_before.children) > Len(pd_init.children)
  /\ CountTag(pd_node, "T_RESOLVED_COLUMN") = 2

-----------------------------------------------------------------------------
(* The metric HTTP API *)

kStatusOK == 200
kStatusCreated == 201
kStatusBadRequest == 400
kStatusNotFound == 404

kMetricsUrl == <<"/", "m", "e", "t", "r", "i", "c", "s">>
kMetricsUrlPrefix == <<"/", "m", "e", "t", "r", "i", "c", "s", "/">>
kQueryUrl == <<"/", "q", "u", "e", "r", "y">>

RECURSIVE stripTrailingSlashes(_)
stripTrailingSlashes(path) ==
  IF Len(path) > 0 /\ path[Len(path)] = "/"
    THEN stripTrailingSlashes(SubSeq(path, 1, Len(path) - 1))
    ELSE path

\* path.compare(0, n, prefix) == 0
HasPrefix(path, prefix) ==
  SubSeq(path, 1, Min(Len(prefix), Len(path))) = prefix

\* path.substr(n)
Substr(path, n) == SubSeq(path, n + 1, Len(path))

RECURSIVE DigitsFrom(_, _)
\* the number of digits of s from position i on
DigitsFrom(s, i) ==
  IF i <= Len(s) /\ s[i] = "3" THEN 1 + DigitsFrom(s, i + 1) ELSE 0

\* std::stod: converts the longest prefix that is a decimal number and
\* throws when there is none
Stod(s) ==
  LET int_len == DigitsFrom(s, 1)
      dot == int_len < Len(s) /\ s[int_len + 1] = "."
      frac_len == IF dot THEN DigitsFrom(s, int_len + 2) ELSE 0
      used == int_len + (IF dot THEN 1 + frac_len ELSE 0)
  IN IF int_len + frac_len = 0
       THEN [ok |-> FALSE, value |-> <<>>]
       ELSE [ok |-> TRUE, value |-> SubSeq(s, 1, used)]

NoParam == [present |-> FALSE, str |-> <<>>]

\* URI::getParam(params, "value", &value_str)
getParam(params) == params

\* MetricRepository::findMetric
findMetric(repo, key) == key \in DOMAIN repo

\* MetricRepository::findOrCreateMetric followed by Metric::addSample
addSample(repo, key) ==
  [k \in DOMAIN repo \cup {key} |->
     IF k = key THEN (IF k \in DOMAIN repo THEN repo[k] + 1 ELSE 1)
     ELSE repo[k]]

\* the handler handleHTTPRequest passes the request to
Route(method, url_path) ==
  LET path == stripTrailingSlashes(url_path)
  IN IF path = kMetricsUrl
       THEN IF method = "M_GET" THEN "renderMetricList" ELSE "none"
     ELSE IF HasPrefix(path, kMetricsUrlPrefix)
       THEN IF method = "M_GET" THEN "renderMetricSampleScan"
            ELSE IF method = "M_POST" THEN "insertSample"
            ELSE "none"
     ELSE IF path = kQueryUrl
       THEN IF method \in {"M_GET", "M_POST"} THEN "query" ELSE "none"
     ELSE "none"

\* what the ?value= parameter of a request is to insertSample
ValueClass(params) ==
  IF ~getParam(params).present THEN "missing"
  ELSE IF ~Stod(getParam(params).str).ok THEN "unparseable"
  ELSE "number"

\* the request as handleHTTPRequest got it and the response it left; status 0
\* when no handler set one
Reply(method, url_path, value, handler, key, status) ==
  [method |-> method, url |-> url_path, params |-> value, handler |-> handler,
   key |-> key, handled |-> handler # "none", status |-> status, samples |-> 0]

\* variant: keys of 2 characters pass the key check
insertSample_shortKeys(repo, url_path, params) ==
  LET metric_key == Substr(url_path, Len(kMetricsUrlPrefix))
      value == Stod(getParam(params).str)
      reply(status) ==
        Reply("M_POST", url_path, ValueClass(params), "insertSample", metric_key,
              status)
  IN IF Len(metric_key) < 2 \/ ~getParam(params).present \/ ~value.ok
       THEN [repo |-> repo, reply |-> reply(kStatusBadRequest)]
       ELSE [repo |-> addSample(repo, metric_key),
             reply |-> reply(kStatusCreated)]

insertSample(repo, url_path, params) ==
  LET metric_key == Substr(url_path, Len(kMetricsUrlPrefix))
      value == Stod(getParam(params).str)
      reply(status) ==
        Reply("M_POST", url_path, ValueClass(params), "insertSample", metric_key,
              status)
  IN IF Len(metric_key) < 3
       THEN [repo |-> repo, reply |-> reply(kStatusBadRequest)]
     ELSE IF ~getParam(params).present
       THEN [repo |-> repo, reply |-> reply(kStatusBadRequest)]
     ELSE IF ~value.ok
       THEN [repo |-> repo, reply |-> reply(kStatusBadRequest)]
     ELSE [repo |-> addSample(repo, metric_key),
           reply |-> reply(kStatusCreated)]

renderMetricSampleScan(repo, url_path) ==
  LET metric_key == Substr(url_path, Len(kMetricsUrlPrefix))
      reply(status) ==
        Reply("M_GET", url_path, "none", "renderMetricSampleScan", metric_key,
              status)
  IN IF Len(metric_key) < 3 THEN reply(kStatusBadRequest)
     ELSE IF ~findMetric(repo, metric_key) THEN reply(kStatusNotFound)
     ELSE [reply(kStatusOK) EXCEPT !.samples = repo[metric_key]]

renderMetricList(repo, url_path) ==
  [Reply("M_GET", url_path, "none", "renderMetricList", <<>>, kStatusOK)
     EXCEPT !.samples = Cardinality(DOMAIN repo)]

(* requests *)
Keys ==
  {<<>>, <<"/">>, <<"a", "b">>, <<"a", "/">>, <<"/", "/", "/">>,
   <<"a", "b", "c">>, <<"a", "b", "d">>, <<"a", "b", "/">>}

Methods == {"M_GET", "M_POST", "M_PUT"}

ValChars == {"3", ".", "x"}

Values ==
  {NoParam} \cup
  {[present |-> TRUE, str |-> v] :
     v \in UNION {[1..n -> ValChars] : n \in 0..MaxValLen}}

MetricPaths == {kMetricsUrlPrefix \o k : k \in Keys}

InitHttp ==
  /\ metrics = NoMetrics
  /\ metrics_before = NoMetrics
  /\ posted = {}
  /\ response = NoResponse
  /\ PlanIdle /\ PushDownIdle

\* the repository of the model has room for the sample
Room(url_path) ==
  LET key == Substr(url_path, Len(kMetricsUrlPrefix))
  IN IF key \in DOMAIN metrics THEN metrics[key] < MaxSamples
     ELSE Cardinality(DOMAIN metrics) < MaxMetrics

PostSample(url_path, params) ==
  /\ Route("M_POST", url_path) = "insertSample"
  /\ Room(url_path)
  /\ LET r == insertSample(metrics, url_path, params)
     IN /\ metrics' = r.repo
        /\ response' = r.reply
        /\ posted' = IF r.reply.status = kStatusCreated
                       THEN posted \cup {r.reply.key} ELSE posted
  /\ metrics_before' = metrics
  /\ UNCHANGED <<planVars, pushDownVars>>

GetSamples(url_path) ==
  /\ Route("M_GET", url_path) = "renderMetricSampleScan"
  /\ response' = renderMetricSampleScan(metrics, url_path)
  /\ metrics_before' = metrics
  /\ UNCHANGED <<metrics, posted, planVars, pushDownVars>>

GetMetricList(url_path) ==
  /\ Route("M_GET", url_path) = "renderMetricList"
  /\ response' = renderMetricList(metrics, url_path)
  /\ metrics_before' = metrics
  /\ UNCHANGED <<metrics, posted, planVars, pushDownVars>>

Query(method, url_path) ==
  /\ Route(method, url_path) = "query"
  /\ response' = Reply(method, url_path, "none", "query", <<>>, 0)
  /\ metrics_before' = metrics
  /\ UNCHANGED <<metrics, posted, planVars, pushDownVars>>

\* handleHTTPRequest returns false: the request is not answered here
NotHandled(method, url_path) ==
  /\ Route(method, url_path) = "none"
  /\ response' = Reply(method, url_path, "none", "none", <<>>, 0)
  /\ metrics_before' = metrics
  /\ UNCHANGED <<metrics, posted, planVars, pushDownVars>>

NextHttp ==
  \/ \E p \in MetricPaths, v \in Values : PostSample(p, v)
  \/ \E p \in MetricPaths : GetSamples(p)
  \/ \E p \in MetricPaths \cup {kMetricsUrl} : GetMetricList(p)
  \/ \E m \in Methods : Query(m, kQueryUrl)
  \/ \E m \in Methods, p \in MetricPaths \cup {kMetricsUrl, kQueryUrl, <<"/", "x">>} :
       NotHandled(m, p)

SpecHttp == InitHttp /\ [][NextHttp]_vars

-----------------------------------------------------------------------------
(* C9 *)

\* the last request was method /metrics/{key}
Was(method, key) ==
  /\ response.method = method
  /\ response.url = kMetricsUrlPrefix \o key

BadValue(value) == value \in {"missing", "unparseable"}

Unchanged == metrics = metrics_before

OneSampleAdded(key) ==
  /\ key \in DOMAIN metrics
  /\ \A k \in DOMAIN metrics \ {key} :
       k \in DOMAIN metrics_before /\ metrics[k] = metrics_before[k]
  /\ DOMAIN metrics = DOMAIN metrics_before \cup {key}
  /\ metrics[key] = (IF key \in DOMAIN metrics_before
                       THEN metrics_before[key] ELSE 0) + 1

OnlySlashes(key) == \A i \in 1..Len(key) : key[i] = "/"

PostAnswer(key) ==
  Was("M_POST", key) =>
    IF Len(key) < 3 \/ BadValue(response.params)
      THEN response.status = kStatusBadRequest /\ Unchanged
      ELSE response.status = kStatusCreated /\ OneSampleAdded(key)

\* C9 (as claimed): POST /metrics/{key}?value=V answers 400 and leaves the
\* repository unchanged when the key is shorter than 3 characters or the
\* value is missing or unparseable, and otherwise answers 201 and adds one
\* sample to the key's metric; GET /metrics/{key} answers 200 if an earlier
\* POST to the key answered 201 and 404 if the key is unknown.
C9_Original ==
  \A key \in Keys :
    /\ PostAnswer(key)
    /\ Was("M_GET", key) =>
         /\ key \in posted => response.status = kStatusOK
         /\ key \notin DOMAIN metrics => response.status = kStatusNotFound

\* C9 (amended): for a key with a character other than "/": POST answers as
\* claimed; GET /metrics/{key} answers 400 if the key is shorter than 3
\* characters, 200 if an earlier POST to the key answered 201, and 404
\* otherwise, and the keys of the repository are the keys a POST answered
\* 201 for.  A request whose key is empty or all slashes is a request for
\* /metrics: the sample handlers never see it.
C9_HttpStatuses ==
  /\ DOMAIN metrics = posted
  /\ \A key \in Keys :
       IF OnlySlashes(key)
         THEN (Was("M_POST", key) \/ Was("M_GET", key)) =>
                /\ response.handler \notin {"insertSample", "renderMetricSampleScan"}
                /\ Unchanged
         ELSE /\ PostAnswer(key)
              /\ Was("M_GET", key) =>
                   /\ Unchanged
                   /\ response.status =
                        (IF Len(key) < 3 THEN kStatusBadRequest
                         ELSE IF key \in posted THEN kStatusOK
                         ELSE kStatusNotFound)

\* a GET answered 200 for a key that two POSTs had answered 201 for, while
\* the repository held another metric
C9_Witness ==
  /\ response.method = "M_GET"
  /\ response.status = kStatusOK
  /\ response.key \in posted
  /\ response.samples = 2
  /\ Cardinality(DOMAIN metrics) = 2

====
